---- MODULE Spec2Model ----
(***************************************************************************)
(* Model of the worker thread core of pelikan (src/core/data/worker.c):    *)
(* the event dispatch (_worker_event), connection read/write with          *)
(* backpressure, and the connection handoff with the server (acceptor)     *)
(* thread over the ring arrays conn_new / conn_term and the signal pipes   *)
(* pipe_new / pipe_term.                                                   *)
(*                                                                         *)
(* The worker is one thread; its dispatches are split at the accesses to   *)
(* the state shared with the server thread (pipe_recv, ring_array_pop,     *)
(* ring_array_push, pipe_send), so that the server thread interleaves at   *)
(* every such access.                                                      *)
(***************************************************************************)
EXTENDS Naturals, Integers, Sequences, FiniteSets

\* ------------------------------------------------------------------ bounds
NConn == 2          \* connections the server thread accepts in a run
RING_ARRAY_DEFAULT_CAP == 2   \* size of buf[] in worker_add_stream
ConnNewCap == 2     \* capacity of the ring array conn_new
ConnTermCap == 1    \* capacity of the ring array conn_term
MaxSignals == NConn + 1   \* cap on the bytes ever written to pipe_term
MaxSpurious == 2    \* cap on signal bytes without a pushed entry (SpecLoose)

Conns == 1..NConn
NoConn == 0

\* ------------------------------------------------------- status constants
CC_OK == 0
CC_ERROR == -1
CC_EAGAIN == -2
CC_ERETRY == -3

EVENT_READ == "R"
EVENT_WRITE == "W"
EVENT_ERR == "E"

CHANNEL_OPEN == "OPEN"
CHANNEL_TERM == "TERM"
CHANNEL_ERROR == "ERROR"

VARIABLES
    \* --- server (acceptor) thread
    aHeld,        \* connections accepted and not yet handed to the worker
    aPc,          \* "idle" | "signal" (pushed, byte not yet sent) | "pop"
    aPending,     \* bytes drained from pipe_term and not yet matched by a pop
    aClosed,      \* connections the server thread took back and closed
    \* --- shared between the two threads
    conn_new,     \* ring array: server -> worker
    conn_term,    \* ring array: worker -> server
    pipe_new,     \* bytes in the inbound signal pipe
    pipe_term,    \* bytes in the outbound signal pipe
    \* --- connection records (struct buf_sock / struct tcp_conn)
    state,        \* s->ch->state
    owner,        \* s->owner
    hdlOf,        \* s->hdl
    \* --- worker thread
    interest,     \* ctx->evb: registered events per connection id
    pipeWInt,     \* ctx->evb: write event registered on pipe_term
    pc,           \* "idle" | "add_pop" | "ret_push" | "ret_signal"
    i,            \* worker_add_stream: bytes received and not yet matched
    cur,          \* worker_ret_stream: its argument s
    pool,         \* buf_sock records the worker reset and returned itself
    \* --- history
    workerHeld,   \* popped from conn_new, not yet pushed to conn_term / closed
    handed,       \* sequence of connections the server pushed on conn_new
    signalled,    \* bytes the server ever wrote to pipe_new
    regSeq,       \* sequence of connections registered by worker_add_stream
    pushCount,    \* per connection: successful pushes on conn_term
    errHook,      \* per connection: calls of processor->error
    nWritten,     \* bytes ever written to pipe_term
    retryPending, \* a pipe_send asked for a retry and none succeeded since
    hardFail,     \* a pipe_send on pipe_term returned CC_ERROR
    everFull,     \* a push found its ring array full
    touchedOut,   \* the worker changed a record it did not hold
    spurious,     \* bytes put in pipe_new with no entry pushed (SpecLoose)
    d,            \* the latest dispatch, if it was on a connection
    h,            \* the latest dispatch, if it ran worker_add_stream
    probe,        \* one dispatch on a connection, branch by branch (SpecFn)
    \* --- main loop (SpecLoop)
    running,      \* processor->running, set by another thread
    loop          \* core_worker_evloop: where it is, and what it has seen

vars == <<aHeld, aPc, aPending, aClosed, conn_new, conn_term, pipe_new,
          pipe_term, state, owner, hdlOf, interest, pipeWInt, pc, i,
          cur, pool, workerHeld, handed, signalled, regSeq, pushCount,
          errHook, nWritten, retryPending, hardFail, everFull, touchedOut,
          spurious, d, h, probe, running, loop>>

loopVars == <<running, loop>>
systemVars == <<aHeld, aPc, aPending, aClosed, conn_new, conn_term, pipe_new,
                pipe_term, state, owner, hdlOf, interest, pipeWInt, pc, i,
                cur, pool, workerHeld, handed, signalled, regSeq, pushCount,
                errHook, nWritten, retryPending, hardFail, everFull,
                touchedOut, spurious, d, h>>
acceptorVars == <<aHeld, aPc, aPending, aClosed>>
recordVars == <<state, owner, hdlOf>>

\* ---------------------------------------------------------------- helpers
Range(q) == {q[k] : k \in 1..Len(q)}
Count(q, c) == Cardinality({k \in 1..Len(q) : q[k] = c})
Min(a, b) == IF a < b THEN a ELSE b

RECURSIVE SumOver(_, _)
SumOver(f, S) ==
    IF S = {} THEN 0
    ELSE LET c == CHOOSE x \in S : TRUE IN f[c] + SumOver(f, S \ {c})

\* ring array (cc_ring_array): bounded FIFO
ring_array_full(q, cap) == Len(q) >= cap
ring_array_empty(q) == Len(q) = 0

\* event base (cc_event): registration per id; a tcp connection has one id
\* for both directions, so event_del drops every event of the connection
event_del(reg) == {}
event_add_read(reg) == reg \cup {EVENT_READ}
event_add_write(reg) == reg \cup {EVENT_WRITE}

NoDispatch == [c |-> NoConn, hard |-> FALSE, pushed |-> FALSE,
               closed |-> FALSE, done |-> TRUE, hookReg |-> {},
               sig |-> "none"]
NoProbe == [at |-> "none"]
NoHandoff == [n |-> 0, k |-> 0, q0 |-> <<>>, h0 |-> 0, popped |-> <<>>,
              short |-> FALSE]
LoopStart == [at |-> "top", failed |-> FALSE, seen |-> TRUE]

Init ==
    /\ aHeld = Conns
    /\ aPc = "idle"
    /\ aPending = 0
    /\ aClosed = {}
    /\ conn_new = <<>>
    /\ conn_term = <<>>
    /\ pipe_new = 0
    /\ pipe_term = 0
    /\ state = [c \in Conns |-> CHANNEL_OPEN]
    /\ owner = [c \in Conns |-> "none"]
    /\ hdlOf = [c \in Conns |-> "none"]
    /\ interest = [c \in Conns |-> {}]
    /\ pipeWInt = FALSE
    /\ pc = "idle"
    /\ i = 0
    /\ cur = NoConn
    /\ pool = {}
    /\ workerHeld = {}
    /\ handed = <<>>
    /\ signalled = 0
    /\ regSeq = <<>>
    /\ pushCount = [c \in Conns |-> 0]
    /\ errHook = [c \in Conns |-> 0]
    /\ nWritten = 0
    /\ retryPending = FALSE
    /\ hardFail = FALSE
    /\ everFull = FALSE
    /\ touchedOut = FALSE
    /\ spurious = 0
    /\ d = NoDispatch
    /\ h = NoHandoff
    /\ probe = NoProbe
    /\ running = TRUE
    /\ loop = LoopStart

\* ------------------------------------------------- connection operations
\* The view of one connection inside a dispatch: st, int are the fields the
\* code changes, wb is buf_rsize(s->wbuf) > 0 as the processor leaves it;
\* nw (transport writes attempted), hk (write hook calls),
\* hard (a transport write returned CC_ERROR), ri (registrations seen right
\* after a retryable write), rfail (read hook failed) and ret (value returned
\* by the last _worker_event_write) record what happened.
View(st, reg) == [st |-> st, int |-> reg, wb |-> FALSE,
                  nw |-> 0, hk |-> 0, hard |-> FALSE, ri |-> {},
                  rfail |-> FALSE, ret |-> CC_OK]

\* buf_tcp_write: flushes s->wbuf; a full write empties it
buf_tcp_write(v, status) ==
    [v EXCEPT !.nw = @ + 1, !.wb = IF status = CC_OK THEN FALSE ELSE @]

\* buf_tcp_read: a transport error or end of stream shows in the state
buf_tcp_read(v, rres) ==
    IF rres = CHANNEL_OPEN THEN v ELSE [v EXCEPT !.st = rres]

\* as write_status, with line 59 left out
write_status_noterm(v, status) ==
    LET w == buf_tcp_write(v, status) IN
    IF status = CC_ERETRY \/ status = CC_EAGAIN
    THEN LET r == event_add_write(event_del(w.int))
         IN [w EXCEPT !.int = r]
    ELSE IF status = CC_ERROR
    THEN [w EXCEPT !.hard = TRUE]
    ELSE w

\* as write_status, with the event_del of line 56 left out
write_status_nodel(v, status) ==
    LET w == buf_tcp_write(v, status) IN
    IF status = CC_ERETRY \/ status = CC_EAGAIN
    THEN [w EXCEPT !.int = event_add_write(@)]
    ELSE IF status = CC_ERROR
    THEN [w EXCEPT !.st = CHANNEL_TERM, !.hard = TRUE]
    ELSE w

\* lines 46-60: the transport write and the reaction to its status
write_status(v, status) ==
    LET w == buf_tcp_write(v, status) IN
    IF status = CC_ERETRY \/ status = CC_EAGAIN
    THEN LET r == event_add_write(event_del(w.int))
         IN [w EXCEPT !.int = r]
    ELSE IF status = CC_ERROR
    THEN [w EXCEPT !.st = CHANNEL_TERM, !.hard = TRUE]
    ELSE w

\* as _worker_event_write, with the return of line 65 left out: the status
\* of the transport is returned whatever the write hook answered
_worker_event_write_status(v, status, whook) ==
    LET w == [write_status(v, status) EXCEPT !.hk = @ + 1]
        r == IF whook < 0
             THEN [w EXCEPT !.st = CHANNEL_TERM, !.ret = status]
             ELSE [w EXCEPT !.ret = status]
    IN IF status = CC_ERETRY \/ status = CC_EAGAIN
       THEN [r EXCEPT !.ri = @ \cup {r.int}]
       ELSE r

\* lines 37-69
_worker_event_write(v, status, whook) ==
    LET w == [write_status(v, status) EXCEPT !.hk = @ + 1]
        r == IF whook < 0
             THEN [w EXCEPT !.st = CHANNEL_TERM, !.ret = CC_ERROR]
             ELSE [w EXCEPT !.ret = status]
    IN IF status = CC_ERETRY \/ status = CC_EAGAIN
       THEN [r EXCEPT !.ri = @ \cup {r.int}]
       ELSE r

\* as _worker_event_read, with the return of line 84 left out
_worker_event_read_noreturn(v, rres, rhook, fill, status, whook) ==
    LET r == buf_tcp_read(v, rres)
        p == [r EXCEPT !.wb = fill]
        q == IF rhook < 0
             THEN [p EXCEPT !.st = CHANNEL_TERM, !.rfail = TRUE]
             ELSE p
    IN IF q.wb
       THEN _worker_event_write(q, status, whook)
       ELSE q

\* lines 72-90; fill: s->wbuf holds bytes after the read hook
_worker_event_read(v, rres, rhook, fill, status, whook) ==
    LET r == buf_tcp_read(v, rres)
        p == [r EXCEPT !.wb = fill]
    IN IF rhook < 0
       THEN [p EXCEPT !.st = CHANNEL_TERM, !.rfail = TRUE]
       ELSE IF p.wb
            THEN _worker_event_write(p, status, whook)
            ELSE p

\* as event_write_branch, with the event_add_read left out
event_write_branch_noread(v, status, whook) ==
    LET w == _worker_event_write(v, status, whook) IN
    IF w.ret = CC_OK
    THEN [w EXCEPT !.int = event_del(@)]
    ELSE w

\* as event_write_branch, with the test of line 206 left out
event_write_branch_always(v, status, whook) ==
    LET w == _worker_event_write(v, status, whook) IN
    [w EXCEPT !.int = event_add_read(event_del(@))]

\* lines 202-211
event_write_branch(v, status, whook) ==
    LET w == _worker_event_write(v, status, whook) IN
    IF w.ret = CC_OK
    THEN [w EXCEPT !.int = event_add_read(event_del(@))]
    ELSE w

\* lines 212-215
event_err_branch(v) == [v EXCEPT !.st = CHANNEL_TERM]

\* lines 194-215: the three branches of _worker_event on a connection
conn_event(v, mask, in) ==
    LET a == IF EVENT_READ \in mask
             THEN _worker_event_read(v, in.rres, in.rhook, in.fill,
                                     in.wst, in.whook)
             ELSE v
        b == IF EVENT_WRITE \in mask
             THEN event_write_branch(a, in.wst2, in.whook2)
             ELSE a
    IN IF EVENT_ERR \in mask THEN event_err_branch(b) ELSE b

\* as must_return, with the test for CHANNEL_ERROR left out
must_return_term(v) == v.st = CHANNEL_TERM

\* line 226
must_return(v) == v.st = CHANNEL_TERM \/ v.st = CHANNEL_ERROR

\* what the reactor may deliver for an id: the registered events, and errors
Masks(reg) ==
    IF reg = {} THEN {} ELSE {m \in SUBSET (reg \cup {EVENT_ERR}) : m # {}}

WriteStatus == {CC_OK, CC_ERETRY, CC_EAGAIN, CC_ERROR}
HookResult == {0, -1}
ReadResult == {CHANNEL_OPEN, CHANNEL_TERM, CHANNEL_ERROR}

\* the outcomes of the transport and of the processor in one dispatch; an
\* outcome varies only where the code reads it: nothing after a failed read
\* hook, no write status when s->wbuf is empty
NoInput == [rres |-> CHANNEL_OPEN, rhook |-> 0, fill |-> FALSE,
            wst |-> CC_OK, whook |-> 0, wst2 |-> CC_OK, whook2 |-> 0]

ReadInputs ==
    {[NoInput EXCEPT !.rres = r, !.rhook = -1, !.fill = f] :
        r \in ReadResult, f \in BOOLEAN}
    \cup {[NoInput EXCEPT !.rres = r] : r \in ReadResult}
    \cup {[NoInput EXCEPT !.rres = r, !.fill = TRUE, !.wst = w, !.whook = k] :
            r \in ReadResult, w \in WriteStatus, k \in HookResult}

Inputs(mask) ==
    {[x EXCEPT !.wst2 = w, !.whook2 = k] :
        x \in IF EVENT_READ \in mask THEN ReadInputs ELSE {NoInput},
        w \in IF EVENT_WRITE \in mask THEN WriteStatus ELSE {CC_OK},
        k \in IF EVENT_WRITE \in mask THEN HookResult ELSE {0}}

\* pipe_send on pipe_term: 1 byte sent, 0 bytes sent, or a negative status
PipeSendResult == {1, 0, CC_EAGAIN, CC_ERROR}

\* ----------------------------------------------------------- server thread
\* The server thread is not part of worker.c; it follows the handoff
\* protocol: push on conn_new, then one byte on pipe_new; drain pipe_term,
\* then one pop from conn_term per byte.
historyVars == <<workerHeld, regSeq, pushCount, errHook, nWritten,
                 retryPending, hardFail, everFull, touchedOut, spurious,
                 d, h, probe, running, loop>>
workerVars == <<interest, pipeWInt, pc, i, cur, pool>>

AcceptorPush ==
    /\ aPc = "idle"
    /\ aHeld # {}
    /\ ~ring_array_full(conn_new, ConnNewCap)
    /\ LET c == CHOOSE x \in aHeld : \A y \in aHeld : x <= y IN
        /\ conn_new' = Append(conn_new, c)
        /\ aHeld' = aHeld \ {c}
        /\ handed' = Append(handed, c)
    /\ aPc' = "signal"
    /\ UNCHANGED <<aPending, aClosed, conn_term, pipe_new, pipe_term,
                   signalled, recordVars, workerVars, historyVars>>

AcceptorSignal ==
    /\ aPc = "signal"
    /\ pipe_new' = pipe_new + 1
    /\ signalled' = signalled + 1
    /\ aPc' = "idle"
    /\ UNCHANGED <<aHeld, aPending, aClosed, conn_new, conn_term, pipe_term,
                   handed, recordVars, workerVars, historyVars>>

AcceptorDrain ==
    /\ aPc = "idle"
    /\ pipe_term > 0
    /\ LET n == Min(pipe_term, RING_ARRAY_DEFAULT_CAP) IN
        /\ pipe_term' = pipe_term - n
        /\ aPending' = n
    /\ aPc' = "pop"
    /\ UNCHANGED <<aHeld, aClosed, conn_new, conn_term, pipe_new, handed,
                   signalled, recordVars, workerVars, historyVars>>

AcceptorPop ==
    /\ aPc = "pop"
    /\ IF ring_array_empty(conn_term)
       THEN /\ aPending' = 0
            /\ aPc' = "idle"
            /\ UNCHANGED <<conn_term, aClosed, recordVars>>
       ELSE LET s == Head(conn_term) IN
            /\ conn_term' = Tail(conn_term)
            /\ aClosed' = aClosed \cup {s}
            /\ state' = [state EXCEPT ![s] = CHANNEL_TERM]
            /\ owner' = [owner EXCEPT ![s] = "none"]
            /\ hdlOf' = [hdlOf EXCEPT ![s] = "none"]
            /\ aPending' = aPending - 1
            /\ aPc' = IF aPending = 1 THEN "idle" ELSE "pop"
    /\ UNCHANGED <<aHeld, conn_new, pipe_new, pipe_term, handed, signalled,
                   workerVars, historyVars>>

\* a byte on pipe_new that no pushed entry stands for (a protocol violation
\* by the producer; only part of SpecLoose)
SpuriousSignal ==
    /\ spurious < MaxSpurious
    /\ spurious' = spurious + 1
    /\ pipe_new' = pipe_new + 1
    /\ UNCHANGED <<probe, loopVars, acceptorVars, conn_new, conn_term, pipe_term, handed,
                   signalled, recordVars, workerVars, workerHeld, regSeq,
                   pushCount, errHook, nWritten, retryPending, hardFail,
                   everFull, touchedOut, d, h>>

\* ----------------------------------------------------------- worker thread
\* as add_stream_recv, with a loop that runs once more than bytes were read
add_stream_recv_offby1(n) ==
    IF n < 0
    THEN /\ h' = NoHandoff
         /\ UNCHANGED <<pipe_new, i, pc>>
    ELSE /\ pipe_new' = pipe_new - n
         /\ i' = n + 1
         /\ pc' = "add_pop"
         /\ h' = [n |-> n, k |-> Len(conn_new), q0 |-> conn_new,
                  h0 |-> Len(handed), popped |-> <<>>, short |-> FALSE]

\* lines 92-113: worker_add_stream up to the loop. n is the result of
\* pipe_recv: a negative status, or the number of bytes taken from pipe_new
add_stream_recv(n) ==
    IF n < 0
    THEN /\ h' = [NoHandoff EXCEPT !.n = n, !.k = Len(conn_new),
                                   !.q0 = conn_new, !.h0 = Len(handed)]
         /\ UNCHANGED <<pipe_new, i, pc>>
    ELSE /\ pipe_new' = pipe_new - n
         /\ i' = n
         /\ pc' = "add_pop"
         /\ h' = [n |-> n, k |-> Len(conn_new), q0 |-> conn_new,
                  h0 |-> Len(handed), popped |-> <<>>, short |-> FALSE]

\* lines 181-185, 190-193: _worker_event on the read end of pipe_new
PipeNewEvent(mask, n) ==
    /\ pc = "idle"
    /\ mask \in Masks({EVENT_READ})
    /\ IF EVENT_READ \in mask
       THEN /\ pipe_new > 0
            /\ n \in {CC_ERROR} \cup (1..Min(pipe_new, RING_ARRAY_DEFAULT_CAP))
            /\ add_stream_recv(n)
       ELSE /\ n = CC_ERROR
            /\ h' = NoHandoff
            /\ UNCHANGED <<pipe_new, i, pc>>
    /\ d' = NoDispatch
    /\ UNCHANGED <<probe, loopVars, acceptorVars, conn_new, conn_term, pipe_term,
                   recordVars, interest, pipeWInt, cur, pool, workerHeld,
                   handed, signalled, regSeq, pushCount, errHook, nWritten,
                   retryPending, hardFail, everFull, touchedOut, spurious>>

\* as add_stream_register, with event_add_write for event_add_read
add_stream_register_write(s) ==
    /\ owner' = [owner EXCEPT ![s] = "worker"]
    /\ hdlOf' = [hdlOf EXCEPT ![s] = "worker"]
    /\ interest' = [interest EXCEPT ![s] = event_add_write(@)]
    /\ regSeq' = Append(regSeq, s)

\* lines 127-129: what worker_add_stream does with a popped connection
add_stream_register(s) ==
    /\ owner' = [owner EXCEPT ![s] = "worker"]
    /\ hdlOf' = [hdlOf EXCEPT ![s] = "worker"]
    /\ interest' = [interest EXCEPT ![s] = event_add_read(@)]
    /\ regSeq' = Append(regSeq, s)

\* as add_stream_pop_failed, with the status of ring_array_pop ignored: the
\* connection that s still points to is registered again
add_stream_pop_failed_stale ==
    /\ h' = [h EXCEPT !.short = TRUE]
    /\ i' = 0
    /\ pc' = "idle"
    /\ regSeq' = IF regSeq = <<>> THEN regSeq
                 ELSE Append(regSeq, regSeq[Len(regSeq)])
    /\ UNCHANGED <<conn_new, owner, hdlOf, interest, workerHeld>>

\* lines 119-124: ring_array_pop found conn_new empty; the loop is left
add_stream_pop_failed ==
    /\ h' = [h EXCEPT !.short = TRUE]
    /\ i' = 0
    /\ pc' = "idle"
    /\ UNCHANGED <<conn_new, owner, hdlOf, interest, regSeq, workerHeld>>

\* lines 119, 125-130: ring_array_pop returned the oldest entry
add_stream_popped ==
    LET s == Head(conn_new) IN
    /\ conn_new' = Tail(conn_new)
    /\ workerHeld' = workerHeld \cup {s}
    /\ add_stream_register(s)
    /\ h' = [h EXCEPT !.popped = Append(@, s)]
    /\ i' = i - 1
    /\ pc' = IF i = 1 THEN "idle" ELSE "add_pop"

\* lines 118-130: one iteration of the loop of worker_add_stream
AddPop ==
    /\ pc = "add_pop"
    /\ IF ring_array_empty(conn_new)
       THEN add_stream_pop_failed
       ELSE add_stream_popped
    /\ UNCHANGED <<probe, loopVars, acceptorVars, conn_term, pipe_new, pipe_term, state,
                   pipeWInt, cur, pool, handed, signalled, pushCount,
                   errHook, nWritten, retryPending, hardFail, everFull,
                   touchedOut, spurious, d>>

\* as pipe_write_registers, with every status but a sent byte retried
pipe_write_registers_any(res) == res # 1

\* as pipe_write_registers, with the test for zero bytes written left out
pipe_write_registers_eagain(res) == res = CC_EAGAIN

\* line 140: the statuses of pipe_send that ask for a retry
pipe_write_registers(res) == res = 0 \/ res = CC_EAGAIN

\* pipe_send wrote nothing and did not fail for good
Retryable(res) == res \in {0, CC_EAGAIN}

\* lines 133-147; res is the result of pipe_send
_worker_pipe_write(res) ==
    /\ res = 1 => nWritten < MaxSignals
    /\ pipe_term' = IF res = 1 THEN pipe_term + 1 ELSE pipe_term
    /\ nWritten' = IF res = 1 THEN nWritten + 1 ELSE nWritten
    /\ pipeWInt' = IF pipe_write_registers(res) THEN TRUE ELSE pipeWInt
    /\ retryPending' = IF Retryable(res) THEN TRUE
                       ELSE IF res = 1 THEN FALSE ELSE retryPending
    /\ hardFail' = (hardFail \/ res = CC_ERROR)

\* what a dispatch on connection c can make of it: one result for every
\* event mask the reactor may deliver and every answer of the transport and
\* of the processor
OutcomeTable ==
    [st \in {CHANNEL_OPEN, CHANNEL_TERM, CHANNEL_ERROR},
     reg \in SUBSET {EVENT_READ, EVENT_WRITE} |->
        UNION {{conn_event(View(st, reg), mask, in) : in \in Inputs(mask)} :
                  mask \in Masks(reg)}]

Outcomes(c) == OutcomeTable[state[c], interest[c]]

\* as ret_stream_unregister, with only the read event deleted
ret_stream_unregister_read(reg) == reg \ {EVENT_READ}

\* as ret_stream_unregister, with the event_del left out
ret_stream_unregister_keep(reg) == reg

\* line 158: worker_ret_stream stops the events of the connection
ret_stream_unregister(reg) == event_del(reg)

\* as ret_stream_head, with lines 157 and 158 in the other order
ret_stream_head_delfirst(reg) ==
    LET r == ret_stream_unregister(reg) IN [hookReg |-> r, int |-> r]

\* lines 157-158: processor->error runs with the registration as the
\* dispatch left it (hookReg), then event_del
ret_stream_head(reg) ==
    [hookReg |-> reg, int |-> ret_stream_unregister(reg)]

\* lines 194-229: _worker_event on a connection, up to the push of
\* worker_ret_stream (lines 157-158 included); v is one of Outcomes(c)
ConnEvent(c, v) ==
    /\ pc = "idle"
    /\ interest[c] # {}
    /\  /\ state' = [state EXCEPT ![c] = v.st]
        /\ touchedOut' = (touchedOut \/ c \notin workerHeld)
        /\ IF must_return(v)
           THEN /\ errHook' = [errHook EXCEPT ![c] = @ + 1]
                /\ interest' = [interest EXCEPT
                                  ![c] = ret_stream_head(v.int).int]
                /\ pc' = "ret_push"
                /\ cur' = c
           ELSE /\ interest' = [interest EXCEPT ![c] = v.int]
                /\ UNCHANGED <<errHook, pc, cur>>
        /\ d' = [c |-> c, hard |-> v.hard, pushed |-> FALSE,
                 closed |-> FALSE, done |-> ~must_return(v),
                 hookReg |-> IF must_return(v)
                             THEN ret_stream_head(v.int).hookReg ELSE {},
                 sig |-> "none"]
    /\ h' = NoHandoff
    /\ UNCHANGED <<probe, loopVars, acceptorVars, conn_new, conn_term, pipe_new,
                   pipe_term, owner, hdlOf, pipeWInt, i, pool, workerHeld,
                   handed, signalled, regSeq, pushCount, nWritten,
                   retryPending, hardFail, everFull, spurious>>

\* as force_close, with buf_sock_return left out: the record is closed and
\* reset, and then dropped
force_close_leak(s) ==
    /\ owner' = [owner EXCEPT ![s] = "none"]
    /\ hdlOf' = [hdlOf EXCEPT ![s] = "none"]
    /\ state' = [state EXCEPT ![s] = CHANNEL_TERM]
    /\ pool' = pool

\* lines 165-167: hdl->term, buf_sock_reset, buf_sock_return; the reset
\* record has no owner and no handler and its channel is not open
force_close(s) ==
    /\ owner' = [owner EXCEPT ![s] = "none"]
    /\ hdlOf' = [hdlOf EXCEPT ![s] = "none"]
    /\ state' = [state EXCEPT ![s] = CHANNEL_TERM]
    /\ pool' = pool \cup {s}

\* lines 160-170: the push of worker_ret_stream
RetPush ==
    /\ pc = "ret_push"
    /\ IF ring_array_full(conn_term, ConnTermCap)
       THEN /\ force_close(cur)
            /\ everFull' = TRUE
            /\ pc' = "idle"
            /\ cur' = NoConn
            /\ d' = [d EXCEPT !.closed = TRUE, !.done = TRUE]
            /\ UNCHANGED <<conn_term, pushCount>>
       ELSE /\ conn_term' = Append(conn_term, cur)
            /\ pushCount' = [pushCount EXCEPT ![cur] = @ + 1]
            /\ pc' = "ret_signal"
            /\ d' = [d EXCEPT !.pushed = TRUE]
            /\ UNCHANGED <<recordVars, pool, everFull, cur>>
    /\ workerHeld' = workerHeld \ {cur}
    /\ UNCHANGED <<probe, loopVars, acceptorVars, conn_new, pipe_new, pipe_term,
                   interest, pipeWInt, i, handed, signalled, regSeq, errHook,
                   nWritten, retryPending, hardFail, touchedOut, spurious, h>>

\* what a pipe_send came to: a byte sent, a retry asked for, a hard failure
SendKind(res) ==
    IF res = 1 THEN "sent" ELSE IF res = CC_ERROR THEN "hard" ELSE "retry"

\* lines 171-173: the signal of worker_ret_stream
RetSignal(res) ==
    /\ pc = "ret_signal"
    /\ _worker_pipe_write(res)
    /\ pc' = "idle"
    /\ cur' = NoConn
    /\ d' = [d EXCEPT !.done = TRUE, !.sig = SendKind(res)]
    /\ UNCHANGED <<probe, loopVars, acceptorVars, conn_new, conn_term, pipe_new, recordVars,
                   interest, i, pool, workerHeld, handed, signalled, regSeq,
                   pushCount, errHook, everFull, touchedOut, spurious, h>>

\* lines 181, 186-193: _worker_event on the write end of pipe_term
PipeTermEvent(mask, res) ==
    /\ pc = "idle"
    /\ pipeWInt
    /\ mask \in Masks({EVENT_WRITE})
    /\ IF EVENT_WRITE \in mask
       THEN /\ _worker_pipe_write(res)
            /\ d' = [NoDispatch EXCEPT !.sig = SendKind(res)]
       ELSE /\ res = CC_ERROR
            /\ d' = NoDispatch
            /\ UNCHANGED <<pipe_term, nWritten, pipeWInt, retryPending,
                           hardFail>>
    /\ h' = NoHandoff
    /\ UNCHANGED <<probe, loopVars, acceptorVars, conn_new, conn_term, pipe_new,
                   recordVars, interest, pc, i, cur, pool, workerHeld, handed,
                   signalled, regSeq, pushCount, errHook, everFull,
                   touchedOut, spurious>>

Worker ==
    \/ \E mask \in Masks({EVENT_READ}) :
          \E n \in {CC_ERROR} \cup (1..RING_ARRAY_DEFAULT_CAP) :
             PipeNewEvent(mask, n)
    \/ AddPop
    \/ \E c \in Conns : \E v \in Outcomes(c) : ConnEvent(c, v)
    \/ RetPush
    \/ \E res \in PipeSendResult : RetSignal(res)
    \/ \E mask \in Masks({EVENT_WRITE}), res \in PipeSendResult :
          PipeTermEvent(mask, res)

Acceptor == AcceptorPush \/ AcceptorSignal \/ AcceptorDrain \/ AcceptorPop

Next == Worker \/ Acceptor

Spec == Init /\ [][Next]_vars

\* the inbound handoff with a producer that may signal without pushing
NextLoose ==
    \/ AcceptorPush
    \/ AcceptorSignal
    \/ SpuriousSignal
    \/ \E mask \in Masks({EVENT_READ}) :
          \E n \in {CC_ERROR} \cup (1..RING_ARRAY_DEFAULT_CAP) :
             PipeNewEvent(mask, n)
    \/ AddPop

SpecLoose == Init /\ [][NextLoose]_vars

\* The worker thread runs every dispatch to its end; and, as long as the
\* write event of pipe_term is registered, the reactor delivers it again and
\* again and pipe_send succeeds again and again (the server thread drains
\* the pipe).
SpecFair ==
    /\ Spec
    /\ WF_vars(AddPop)
    /\ WF_vars(RetPush)
    /\ WF_vars(\E res \in PipeSendResult : RetSignal(res))
    /\ SF_vars(PipeTermEvent({EVENT_WRITE}, 1))

\* ---------------------------------------------------------- the main loop
\* core_worker_evloop tests processor->running, waits on the event base,
\* which calls _worker_event for every ready event, and tests again.
EventWaitResult == {-1, 0, 1}

\* processor->running is cleared by another thread, at any moment
StopRunning ==
    /\ running
    /\ running' = FALSE
    /\ UNCHANGED <<systemVars, probe, loop>>

\* lines 310, 317: the test of the loop; return NULL when the flag is false
evloop_top ==
    /\ loop.at = "top"
    /\ loop' = [loop EXCEPT !.at = IF running THEN "wait" ELSE "returned",
                            !.seen = running]
    /\ UNCHANGED <<systemVars, probe, running>>

\* lines 288-303: n is the result of event_wait
_worker_evwait(n) == IF n < 0 THEN n ELSE CC_OK

\* as evloop_after_wait, with the test of line 311 left out
evloop_after_wait_ignore(status) == "top"

\* lines 311-314: exit(1) unless _worker_evwait returned CC_OK
evloop_after_wait(status) == IF status # CC_OK THEN "exited" ELSE "top"

\* line 311: event_wait returns n, the dispatches of this wait being over
EvWait(n) ==
    /\ loop.at = "wait"
    /\ pc = "idle"
    /\ loop' = [loop EXCEPT !.at = evloop_after_wait(_worker_evwait(n)),
                            !.failed = (n < 0)]
    /\ UNCHANGED <<systemVars, probe, running>>

\* inside event_wait: _worker_event is called for a ready event
LoopDispatch ==
    /\ loop.at = "wait"
    /\ Worker

NextLoop ==
    \/ StopRunning
    \/ evloop_top
    \/ \E n \in EventWaitResult : EvWait(n)
    \/ LoopDispatch
    \/ AcceptorPush
    \/ AcceptorSignal

\* the thread runs; event_wait returns (at the latest when its timeout is
\* over); a dispatch runs to its end
SpecLoop ==
    /\ Init
    /\ [][NextLoop]_vars
    /\ WF_vars(evloop_top)
    /\ SF_vars(\E n \in EventWaitResult : EvWait(n))
    /\ WF_vars(loop.at = "wait" /\ AddPop)
    /\ WF_vars(loop.at = "wait" /\ RetPush)
    /\ WF_vars(loop.at = "wait" /\ \E res \in PipeSendResult : RetSignal(res))

TypeOK ==
    /\ pc \in {"idle", "add_pop", "ret_push", "ret_signal"}
    /\ aPc \in {"idle", "signal", "pop"}
    /\ Len(conn_new) <= ConnNewCap
    /\ Len(conn_term) <= ConnTermCap
    /\ \A c \in Conns : state[c] \in {CHANNEL_OPEN, CHANNEL_TERM, CHANNEL_ERROR}

\* ------------------------------------------ one dispatch, branch by branch
\* _worker_event on a connection is a function of the connection's state and
\* registration, of the event mask and of what the transport and the
\* processor answer.  SpecFn runs it on every such input, one branch per
\* step.  A dispatch starts on an open connection with read or write
\* registered (DispatchPre, an invariant of Spec).

ProbeStart(reg, mask, in) ==
    /\ probe.at \in {"none", "end"}
    /\ reg \in {{EVENT_READ}, {EVENT_WRITE}}
    /\ mask \in Masks(reg)
    /\ in \in Inputs(mask)
    /\ probe' = [at |-> "start", mask |-> mask, in |-> in,
                 v |-> View(CHANNEL_OPEN, reg)]
    /\ UNCHANGED <<systemVars, loopVars>>

\* lines 197-201
ProbeRead ==
    /\ probe.at = "start"
    /\ probe' = [probe EXCEPT !.at = "read",
                   !.v = IF EVENT_READ \in probe.mask
                         THEN _worker_event_read(@, probe.in.rres,
                                 probe.in.rhook, probe.in.fill, probe.in.wst,
                                 probe.in.whook)
                         ELSE @]
    /\ UNCHANGED <<systemVars, loopVars>>

\* lines 202-211
ProbeWrite ==
    /\ probe.at = "read"
    /\ probe' = [probe EXCEPT !.at = "write",
                   !.v = IF EVENT_WRITE \in probe.mask
                         THEN event_write_branch(@, probe.in.wst2,
                                                 probe.in.whook2)
                         ELSE @]
    /\ UNCHANGED <<systemVars, loopVars>>

\* lines 212-215
ProbeErr ==
    /\ probe.at = "write"
    /\ probe' = [probe EXCEPT !.at = "end",
                   !.v = IF EVENT_ERR \in probe.mask
                         THEN event_err_branch(@) ELSE @]
    /\ UNCHANGED <<systemVars, loopVars>>

NextFn ==
    \/ \E reg \in {{EVENT_READ}, {EVENT_WRITE}} : \E mask \in Masks(reg) :
          \E in \in Inputs(mask) : ProbeStart(reg, mask, in)
    \/ ProbeRead
    \/ ProbeWrite
    \/ ProbeErr

SpecFn == Init /\ [][NextFn]_vars

\* every dispatch on a connection starts as SpecFn starts it
DispatchPre ==
    pc = "idle" =>
        \A c \in Conns :
            interest[c] # {} =>
                /\ state[c] = CHANNEL_OPEN
                /\ interest[c] \in {{EVENT_READ}, {EVENT_WRITE}}

\* ------------------------------------------------------------------ claims
IsPrefix(p, q) == Len(p) <= Len(q) /\ SubSeq(q, 1, Len(p)) = p

Pushed == SumOver(pushCount, Conns)

\* C1: of the connections handed to the worker (pushed on conn_new, then one
\* byte on pipe_new each) every signalled one is registered for read exactly
\* once, in the order of the handoff; no connection is registered twice or
\* pushed on conn_term twice; and as long as no ring array was found full,
\* none is lost: each is in conn_new, with the worker, in conn_term or taken
\* back by the server thread, and each that left the worker was pushed once.
C1_HandoffExactlyOnce ==
    /\ \A c \in Conns :
          /\ Count(regSeq, c) <= 1
          /\ pushCount[c] <= 1
          /\ Count(conn_term, c) <= 1
    /\ Len(regSeq) + i + pipe_new = signalled
    /\ IsPrefix(regSeq, handed)
    /\ (pipe_new = 0 /\ i = 0 /\ aPc # "signal") => regSeq = handed
    /\ ~everFull =>
          /\ pool = {}
          /\ \A c \in Range(handed) :
                c \in Range(conn_new) \cup workerHeld \cup Range(conn_term)
                        \cup aClosed
          /\ \A c \in Range(regSeq) \ workerHeld : pushCount[c] = 1

C1_Witness ==
    /\ Len(handed) = NConn
    /\ regSeq = handed
    /\ ~everFull
    /\ aClosed = Conns

\* C2: the bytes in pipe_term that the server thread has not yet matched by
\* a pop never outnumber the entries of conn_term.
C2_SignalsWithinQueue == pipe_term + aPending <= Len(conn_term)

\* C3: between dispatches, with no signal write waiting for a retry and no
\* hard failure of pipe_send so far, as many bytes were written to pipe_term
\* as connections were pushed on conn_term.
C3_BytesEqualPushes ==
    (pc = "idle" /\ ~retryPending /\ ~hardFail) => nWritten = Pushed

\* C4: every connection is in exactly one place (with the server thread, in
\* conn_new, with the worker, in conn_term, closed), at most once in a ring
\* array; a connection registered with the worker's event base is with the
\* worker and in no ring array; and the worker never dispatches on a
\* connection it does not hold.
InPlaces(c) ==
    <<c \in aHeld, c \in Range(conn_new), c \in workerHeld,
      c \in Range(conn_term), c \in aClosed, c \in pool>>

C4_OnePlace ==
    /\ \A c \in Conns :
          /\ Cardinality({k \in 1..6 : InPlaces(c)[k]}) = 1
          /\ Count(conn_new, c) <= 1
          /\ Count(conn_term, c) <= 1
          /\ interest[c] # {} => c \in workerHeld
    /\ ~touchedOut

C4_Witness ==
    \E c1, c2 \in Conns :
        /\ c1 \in Range(conn_term)
        /\ c2 \in workerHeld
        /\ interest[c2] # {}
        /\ d.c = c2

\* C5: whenever _worker_event_write got CC_ERETRY or CC_EAGAIN from the
\* transport, called for a write event or from _worker_event_read, the
\* connection is registered for write only when the call returns.
C5_RetryWriteOnly ==
    probe.at # "none" => \A reg \in probe.v.ri : reg = {EVENT_WRITE}

C5_Witness ==
    /\ probe.at = "end"
    /\ probe.mask = {EVENT_READ}
    /\ probe.in.wst = CC_EAGAIN
    /\ probe.v.ri # {}

\* C6: between dispatches every connection the worker holds whose state is
\* OPEN has an event registered.
C6_OpenHasInterest ==
    pc = "idle" =>
        \A c \in workerHeld : state[c] = CHANNEL_OPEN => interest[c] # {}

C6_Witness ==
    /\ pc = "idle"
    /\ \E c \in workerHeld :
          /\ state[c] = CHANNEL_OPEN
          /\ interest[c] = {EVENT_WRITE}
          /\ d.c = c

NewSince == SubSeq(handed, h.h0 + 1, Len(handed))

C8_ShortHandoff ==
    h.short =>
        /\ pc = "idle"
        /\ i = 0
        /\ h.k < h.n
        /\ Len(h.popped) < h.n
        /\ h.popped \o conn_new = h.q0 \o NewSince
        /\ Len(handed) = h.h0 => (Len(h.popped) = h.k /\ conn_new = <<>>)
        /\ \A c \in Conns : Count(regSeq, c) <= 1
        /\ IsPrefix(regSeq, handed)
        /\ \A c \in Conns :
              interest[c] = IF c \in Range(regSeq) THEN {EVENT_READ} ELSE {}

C8_Witness ==
    /\ h.short
    /\ h.k >= 1
    /\ Len(h.popped) = h.k
    /\ conn_new = <<>>

\* C9: a run of worker_add_stream that read n bytes with at least n entries
\* in conn_new pops exactly the n oldest, in order; each popped connection
\* has this worker as owner and handler and is registered for read; conn_new
\* is shorter by n; and no dispatch is on a connection not yet registered.
C9_FifoHandoff ==
    /\ h.n > 0 => h.popped \o conn_new = h.q0 \o NewSince
    /\ pc = "add_pop" => Len(h.popped) + i = h.n
    /\ (h.n > 0 /\ pc # "add_pop" /\ h.k >= h.n) =>
          /\ h.popped = SubSeq(h.q0, 1, h.n)
          /\ Len(conn_new) = (h.k - h.n) + Len(NewSince)
    /\ \A c \in Range(h.popped) :
          /\ owner[c] = "worker"
          /\ hdlOf[c] = "worker"
          /\ interest[c] = {EVENT_READ}
    /\ d.c # NoConn => d.c \in Range(regSeq)
    /\ \A c \in Conns \ Range(regSeq) : interest[c] = {}

C9_Witness ==
    /\ pc = "idle"
    /\ h.n = 2
    /\ h.popped = <<1, 2>>
    /\ conn_new = <<>>

\* C10: a dispatch in which a transport write returned CC_ERROR ends with
\* the connection in state TERM, processor->error called once for it, no
\* event registered for it, and the connection either pushed on conn_term
\* exactly once (there once until the server thread pops it) or, conn_term
\* being full, closed by the worker and in no ring array.
C10_HardWriteError ==
    (d.hard /\ d.done) =>
        /\ state[d.c] = CHANNEL_TERM
        /\ errHook[d.c] = 1
        /\ interest[d.c] = {}
        /\ \/ /\ d.pushed
              /\ ~d.closed
              /\ pushCount[d.c] = 1
              /\ d.c \notin pool
              /\ \/ Count(conn_term, d.c) = 1
                 \/ Count(conn_term, d.c) = 0 /\ d.c \in aClosed
           \/ /\ d.closed
              /\ ~d.pushed
              /\ everFull
              /\ pushCount[d.c] = 0
              /\ d.c \in pool
              /\ d.c \notin Range(conn_term) \cup Range(conn_new)

C10_Witness ==
    /\ d.hard
    /\ d.done
    /\ d.pushed
    /\ Count(conn_term, d.c) = 1

C10_WitnessFull ==
    /\ d.hard
    /\ d.done
    /\ d.closed

C12_TerminalStates ==
    /\ [][\A c \in Conns : state[c] # CHANNEL_OPEN =>
                               state'[c] # CHANNEL_OPEN]_vars
    /\ [](\A c \in Conns : errHook[c] <= 1)
    /\ []((d.c # NoConn /\ d.done) =>
            (state[d.c] \in {CHANNEL_TERM, CHANNEL_ERROR}
                <=> errHook[d.c] = 1))
    /\ [](pc = "idle" =>
            \A c \in workerHeld :
                interest[c] # {} => state[c] = CHANNEL_OPEN)

C12_Witness ==
    /\ d.c # NoConn
    /\ d.done
    /\ state[d.c] = CHANNEL_ERROR
    /\ errHook[d.c] = 1
    /\ d.c \notin workerHeld

\* C13: when worker_ret_stream finds conn_term full, the connection is closed,
\* its record reset and returned to the pool, and worker_ret_stream returns:
\* conn_term is as it was, no byte is written to pipe_term, no write event is
\* registered on it, nothing counts as pushed; a connection closed this way
\* is in the pool and in no ring array, with no event registered.
C13_FullQueueClose ==
    /\ [][(pc = "ret_push" /\ pc' # pc
             /\ ring_array_full(conn_term, ConnTermCap)) =>
            /\ pc' = "idle"
            /\ conn_term' = conn_term
            /\ pipe_term' = pipe_term
            /\ nWritten' = nWritten
            /\ pipeWInt' = pipeWInt
            /\ retryPending' = retryPending
            /\ pushCount' = pushCount
            /\ cur \in pool'
            /\ cur \notin workerHeld'
            /\ owner'[cur] = "none"
            /\ hdlOf'[cur] = "none"
            /\ state'[cur] # CHANNEL_OPEN
            /\ interest'[cur] = {}]_vars
    /\ [](\A c \in Conns :
            (errHook[c] = 1 /\ c \notin workerHeld /\ pushCount[c] = 0) =>
                /\ c \in pool
                /\ c \notin Range(conn_term) \cup Range(conn_new) \cup aClosed
                /\ interest[c] = {})

C13_Witness ==
    /\ d.closed
    /\ d.c \in pool
    /\ pushCount[d.c] = 0
    /\ Len(conn_term) = ConnTermCap
    /\ pc = "idle"

\* C14: core_worker_evloop returns only from the test at the top of the loop
\* and only having read the flag as false; a wait is entered only having
\* read it as true; once the loop has returned or the process has exited,
\* there is no wait and no dispatch any more; a failed event_wait ends the
\* process; and once the flag is false, with every event_wait returning,
\* the loop returns (or the process has exited).
C14_LoopExit ==
    /\ [][(loop'.at = "returned" /\ loop.at # "returned") =>
            (loop.at = "top" /\ ~running)]_vars
    /\ [](loop.at = "returned" => (~loop.seen /\ ~running))
    /\ [](loop.at = "wait" => loop.seen)
    /\ [](pc # "idle" => loop.at = "wait")
    /\ [][loop.at \in {"returned", "exited"} =>
            UNCHANGED <<loop, workerVars, regSeq, errHook, nWritten,
                        pushCount, d, h>>]_vars
    /\ [](loop.failed <=> loop.at = "exited")
    /\ (~running) ~> (loop.at \in {"returned", "exited"})

C14_Witness ==
    /\ loop.at = "returned"
    /\ regSeq # <<>>
    /\ \E c \in Conns : interest[c] # {}

C14_WitnessExit ==
    /\ loop.at = "exited"
    /\ running
    /\ regSeq # <<>>

\* C15: a dispatch on a connection whose event mask holds the error bit ends
\* its three branches, before the test of line 226, with the state ERROR.
C15_ErrorBitForcesError ==
    (probe.at = "end" /\ EVENT_ERR \in probe.mask) =>
        probe.v.st = CHANNEL_ERROR

\* C16: every call of _worker_event_write calls the write hook once, whatever
\* the transport answered (success, retry, hard error); when the hook
\* answers a negative result the state is TERM and the call returns
\* CC_ERROR, also after a successful or retryable transport write, and the
\* write branch of the dispatch does not register the read event; otherwise
\* the call returns the status of the transport.
C16_WriteHookAlways ==
    /\ probe.at # "none" => probe.v.hk = probe.v.nw
    /\ (probe.at = "write" /\ EVENT_WRITE \in probe.mask) =>
          /\ probe.v.hk = 1
          /\ probe.in.whook2 < 0 =>
                /\ probe.v.st = CHANNEL_TERM
                /\ probe.v.ret = CC_ERROR
                /\ EVENT_READ \notin probe.v.int
          /\ probe.in.whook2 >= 0 => probe.v.ret = probe.in.wst2
    /\ (probe.at = "read" /\ probe.v.nw = 1) =>
          /\ probe.v.hk = 1
          /\ probe.in.whook < 0 =>
                /\ probe.v.st = CHANNEL_TERM
                /\ probe.v.ret = CC_ERROR
          /\ probe.in.whook >= 0 => probe.v.ret = probe.in.wst

C16_Witness ==
    /\ probe.at = "write"
    /\ probe.mask = {EVENT_WRITE}
    /\ probe.in.wst2 = CC_OK
    /\ probe.in.whook2 < 0
    /\ probe.v.hk = 1
    /\ probe.v.ret = CC_ERROR
    /\ probe.v.int = {EVENT_WRITE}

\* C17: the write branch of a dispatch on a connection leaves exactly the
\* read event registered when the transport write was complete and the write
\* hook did not fail; in every other case it leaves the read event
\* unregistered.
C17_WriteEventRearm ==
    (probe.at = "write" /\ EVENT_WRITE \in probe.mask) =>
        IF probe.in.wst2 = CC_OK /\ probe.in.whook2 >= 0
        THEN probe.v.int = {EVENT_READ}
        ELSE EVENT_READ \notin probe.v.int

C17_Witness ==
    /\ probe.at = "write"
    /\ probe.mask = {EVENT_WRITE}
    /\ probe.in.wst2 = CC_OK
    /\ probe.in.whook2 >= 0
    /\ probe.v.int = {EVENT_READ}
    /\ probe.v.st = CHANNEL_OPEN

\* C18: worker_ret_stream runs in one order: processor->error is called
\* while the connection is still registered, then its events are deleted,
\* then it is pushed on conn_term, and pipe_send is called only after a push
\* that succeeded (or later, for a retry that was asked for); a connection in
\* conn_term has had its error hook called and has no event registered.
C18_ReturnOrder ==
    /\ []((d.c # NoConn /\ (~d.done \/ d.pushed \/ d.closed)) =>
            /\ d.hookReg # {}
            /\ errHook[d.c] = 1)
    /\ [](pc = "ret_push" =>
            /\ errHook[cur] = 1
            /\ interest[cur] = {}
            /\ pushCount[cur] = 0
            /\ cur \notin Range(conn_term))
    /\ [](pc = "ret_signal" =>
            /\ pushCount[cur] = 1
            /\ d.pushed
            /\ interest[cur] = {})
    /\ [][pc' = "ret_signal" =>
            \/ pc = "ret_signal"
            \/ pc = "ret_push" /\ conn_term' = Append(conn_term, cur)]_vars
    /\ [][(nWritten' # nWritten \/ pipeWInt' # pipeWInt
             \/ hardFail' # hardFail) =>
            (pc = "ret_signal" \/ (pc = "idle" /\ pipeWInt))]_vars
    /\ [](\A c \in Range(conn_term) :
            interest[c] = {} /\ errHook[c] = 1)

C18_Witness ==
    /\ pc = "ret_signal"
    /\ d.hookReg = {EVENT_READ}
    /\ cur \in Range(conn_term)
    /\ errHook[cur] = 1
    /\ nWritten = 0

\* C19: a connection for which worker_ret_stream has run has no event
\* registered, read or write, also when it was registered for write only
\* (backpressure, from an earlier dispatch or from this one) when it was
\* returned; and no dispatch is ever on a connection that was returned or
\* closed by the worker.
C19_NoInterestAfterReturn ==
    /\ [](\A c \in Conns : errHook[c] >= 1 => interest[c] = {})
    /\ [](\A c \in Conns \ workerHeld : interest[c] = {})
    /\ [][(pc = "idle" /\ d' # d /\ d'.c # NoConn) =>
            /\ errHook[d'.c] = 0
            /\ interest[d'.c] # {}
            /\ d'.c \in workerHeld
            /\ d'.c \notin pool \cup Range(conn_term) \cup aClosed]_vars

C19_Witness ==
    /\ d.c # NoConn
    /\ d.done
    /\ d.hookReg = {EVENT_WRITE}
    /\ errHook[d.c] = 1
    /\ interest[d.c] = {}
    /\ d.c \in Range(conn_term)
    /\ \E c \in workerHeld : interest[c] # {}

\* C20: when pipe_recv on pipe_new fails, worker_add_stream pops nothing and
\* registers nothing, conn_new and pipe_new are as they were and the worker
\* is back between dispatches; when pipe_send on pipe_term fails hard, the
\* step changes neither conn_term nor the registration of pipe_term nor the
\* bytes in it, and the connection just pushed is still in conn_term (or
\* already with the server thread).
C20_PipeFailureKeepsConnections ==
    /\ [](h.n < 0 =>
            /\ pc = "idle"
            /\ i = 0
            /\ h.popped = <<>>
            /\ conn_new = h.q0 \o NewSince)
    /\ [][(pc = "idle" /\ h' # h /\ h'.n < 0) =>
            /\ pc' = "idle"
            /\ UNCHANGED <<conn_new, pipe_new, interest, regSeq,
                           workerHeld, recordVars, conn_term>>]_vars
    /\ [][(d' # d /\ d'.sig = "hard") =>
            /\ UNCHANGED <<conn_term, pipe_term, pipeWInt, nWritten,
                           pushCount, interest, workerHeld>>
            /\ d'.c # NoConn =>
                  /\ pushCount[d'.c] = 1
                  /\ d'.c \in Range(conn_term) \cup aClosed]_vars

C20_Witness ==
    /\ h.n < 0
    /\ conn_new # <<>>
    /\ hardFail
    /\ ~pipeWInt
    /\ conn_term # <<>>
    /\ nWritten = 0

====
